---- MODULE Spec2Model ----
(***************************************************************************)
(* Air_intake: the OK/NG inspection loop of app.py (trigger poll, detect,  *)
(* classify, write D11, reset M10) and the bitmask encoder of detector.py. *)
(*                                                                         *)
(* Spec          the control loop of app.py, in both connectivity modes    *)
(* SpecDetector  run_detection of detector.py, box by box and cap by cap   *)
(* SpecPlc       the PLCController class of plc_sender.py under any caller *)
(***************************************************************************)
EXTENDS Integers, Sequences, FiniteSets, TLC

VARIABLES
    plc_connected,    \* app.py:24/29  outcome of the single connect attempt
    mc,               \* app.py:23/27/34  the connection handle, or "None"
    pc,               \* position of the script inside the main loop
    trigger_detected, \* app.py:168
    frame,            \* app.py:74  "unset" | "None" | "frame"
    boxes,            \* app.py:87  class names of results.boxes.data, in order
    detection_result, \* app.py:83  1 = OK, 0 = NG
    result,           \* app.py:181 the value detect_once returned
    detection_count,  \* app.py:163
    ok_count,         \* app.py:164
    ng_count,         \* app.py:165
    m10,              \* the controller's trigger coil M10
    d11,              \* the controller's result register D11
    ioLog,            \* controller calls made in the current loop iteration
    cycles,           \* loop iterations started
    missed,           \* iterations in which get_frame returned None
    stopReason,       \* why the loop was left
    summary,          \* the counters summaries printed on the way out
    writes,           \* write_result calls made since the loop was entered
    det_pc,           \* detector.py: position inside run_detection
    det_nboxes,       \* detector.py: boxes iterated so far (line 11)
    missing,          \* detector.py:9
    remaining,        \* detector.py:21  caps the second loop still has to visit
    result_value,     \* detector.py:20
    ctl_link,         \* plc_sender.py:9  whether self.mc.connect succeeded
    ctl_trigger,      \* the controller word D<trigger_addr>
    ctl_result,       \* the controller word D<result_addr>
    ctl_io,           \* calls issued on self.mc after the constructor
    ctl_last          \* the last PLCController method call and its outcome

loopVars == <<plc_connected, mc, pc, trigger_detected, frame, boxes,
              detection_result, result, detection_count, ok_count, ng_count,
              m10, d11, ioLog, cycles, missed, stopReason, summary, writes>>
detVars == <<det_pc, det_nboxes, missing, remaining, result_value>>
ctlVars == <<ctl_link, ctl_trigger, ctl_result, ctl_io, ctl_last>>
vars == <<loopVars, detVars, ctlVars>>

----------------------------------------------------------------------------
(* Bounds of the model *)

MaxPolls == 3        \* loop iterations explored while Connected
MaxMissed == 1       \* iterations without a frame explored
MaxBoxes == 2        \* detections per frame in the control loop
MaxClassId == 6      \* detector.py: class ids 0..MaxClassId (and one wide id)
MaxDetBoxes == 7     \* detector.py: boxes per frame
MaxCtlCalls == 4     \* plc_sender.py: method calls explored

(* Program constants *)

MaxDetections == 20  \* app.py:195
OK == 1              \* app.py:83
NG == 0              \* app.py:83

----------------------------------------------------------------------------
(* Strings as sequences of characters, so that lower() and `in` are computed *)

UpperChars == <<"A","B","C","D","E","F","G","H","I","J","K","L","M",
                "N","O","P","Q","R","S","T","U","V","W","X","Y","Z">>
LowerChars == <<"a","b","c","d","e","f","g","h","i","j","k","l","m",
                "n","o","p","q","r","s","t","u","v","w","x","y","z">>

ToLower ==
    [c \in {UpperChars[i] : i \in 1..Len(UpperChars)} |->
        LowerChars[CHOOSE i \in 1..Len(UpperChars) : UpperChars[i] = c]]

LowerChar(c) == IF c \in DOMAIN ToLower THEN ToLower[c] ELSE c

\* str.lower()
Lower(s) == [i \in 1..Len(s) |-> LowerChar(s[i])]

\* sub in s
Contains(sub, s) ==
    \E i \in 0..(Len(s) - Len(sub)) : SubSeq(s, i + 1, i + Len(sub)) = sub

Str_ok == <<"o","k">>
Str_ng == <<"n","g">>
NoObjectsLabel == <<"N","o"," ","o","b","j","e","c","t","s"," ",
                    "d","e","t","e","c","t","e","d">>

\* class names the detector may report (model.names)
Labels == { <<"o","k">>, <<"O","K">>, <<"n","g">>, <<"N","G">>,
            <<"c","a","p">>, <<"b","o","o","k">>, <<"l","o","n","g">> }

BoxLists == UNION { [1..n -> Labels] : n \in 0..MaxBoxes }

----------------------------------------------------------------------------
(* detect_once: the classification, app.py:82-126 *)

\* lines 99-104: the per-box assignment
BoxResult(class_name) == IF Lower(class_name) = Str_ok THEN OK ELSE NG

\* lines 88-104: the for loop, the last box seen decides
RECURSIVE ProcessBoxes(_, _)
ProcessBoxes(bs, acc) ==
    IF bs = <<>> THEN acc ELSE ProcessBoxes(Tail(bs), BoxResult(Head(bs)))

ClassifyBoxesNoElse(bs) == [result |-> ProcessBoxes(bs, OK), objects |-> bs]

\* lines 83-113: detection_result and detected_objects after the if/else
ClassifyBoxes(bs) ==
    IF Len(bs) > 0
    THEN [result |-> ProcessBoxes(bs, OK), objects |-> bs]
    ELSE [result |-> NG, objects |-> <<NoObjectsLabel>>]

FinalResultOkFirst(objs, prior) ==
    IF objs # <<>>
    THEN IF \E i \in 1..Len(objs) : Contains(Str_ok, Lower(objs[i])) THEN OK
         ELSE NG
    ELSE prior

FinalResultLastSeen(objs, prior) == prior

\* lines 116-126: the final decision over detected_objects
FinalResult(objs, prior) ==
    IF objs # <<>>
    THEN LET ng_detected == \E i \in 1..Len(objs) : Contains(Str_ng, Lower(objs[i]))
             ok_detected == \E i \in 1..Len(objs) : Contains(Str_ok, Lower(objs[i]))
         IN  IF ng_detected THEN NG
             ELSE IF ok_detected THEN OK
             ELSE NG
    ELSE prior

\* lines 82-126
DetectionResult(bs) ==
    LET c == ClassifyBoxes(bs) IN FinalResult(c.objects, c.result)

----------------------------------------------------------------------------
(* Controller wrappers of app.py *)

IoOutcomes == {"ok", "error"}
Keys == {"q", "space", "other"}

Call(op, io, val) == [op |-> op, io |-> io, val |-> val]

ReadTriggerOnErrorTrue(io, coil) == IF io = "error" THEN TRUE ELSE coil = 1

\* read_trigger, lines 41-46: the value returned while Connected
ReadTriggerResult(io, coil) == IF io = "error" THEN FALSE ELSE coil = 1

NoPlcInverted == plc_connected \/ mc = "None"

\* read_trigger / reset_trigger / write_result, lines 38, 49, 60
NoPlc == ~plc_connected \/ mc = "None"

ShouldResetUnlessSuccess == plc_connected /\ result # "success"

ShouldResetIfWritten ==
    /\ plc_connected
    /\ \E i \in 1..Len(ioLog) :
         ioLog[i].op = "write_result" /\ ioLog[i].io = "ok"

ShouldResetUnlessNoFrame == plc_connected /\ result # "no_frame"

\* line 191
ShouldReset == plc_connected

LimitReachedStrict(count) == count > MaxDetections

\* line 195
LimitReached(count) == count >= MaxDetections

HasOp(op) == \E i \in 1..Len(ioLog) : ioLog[i].op = op
OpIndex(op) == CHOOSE i \in 1..Len(ioLog) : ioLog[i].op = op

----------------------------------------------------------------------------
(* The control loop *)

InTry == {"loop_top", "detect", "write", "show", "dispatch", "after", "sleep"}

\* lines 23-34 and 163-165: the state when the loop is entered
InitLoop ==
    /\ \/ plc_connected = TRUE /\ mc = "Type3E"
       \/ plc_connected = FALSE /\ mc = "None"
    /\ pc = "loop_top"
    /\ trigger_detected = FALSE
    /\ frame = "unset"
    /\ boxes = <<>>
    /\ detection_result = OK
    /\ result = "none"
    /\ detection_count = 0
    /\ ok_count = 0
    /\ ng_count = 0
    /\ IF plc_connected
       THEN m10 \in {0, 1} /\ d11 \in {0, 1}
       ELSE m10 = 0 /\ d11 = 0      \* no controller behind the names
    /\ ioLog = <<>>
    /\ cycles = 0
    /\ missed = 0
    /\ stopReason = "none"
    /\ summary = <<>>
    /\ writes = 0

\* lines 167-178: top of the loop, the trigger poll
ReadTrigger ==
    /\ pc = "loop_top"
    /\ plc_connected => cycles < MaxPolls
    /\ cycles' = cycles + 1
    /\ frame' = "unset"
    /\ boxes' = <<>>
    /\ result' = "none"
    /\ IF plc_connected
       THEN IF NoPlc
            THEN /\ trigger_detected' = TRUE
                 /\ ioLog' = <<Call("read_trigger", "none", 1)>>
            ELSE \E io \in IoOutcomes :
                   LET r == ReadTriggerResult(io, m10) IN
                   /\ trigger_detected' = r
                   /\ ioLog' = <<Call("read_trigger", io, IF r THEN 1 ELSE 0)>>
       ELSE /\ trigger_detected' = TRUE
            /\ ioLog' = <<>>
    /\ pc' = IF trigger_detected' THEN "detect" ELSE "sleep"
    /\ UNCHANGED <<plc_connected, mc, detection_result, detection_count,
                   ok_count, ng_count, m10, d11, missed, stopReason, summary>>
    /\ UNCHANGED <<writes, detVars, ctlVars>>

\* lines 74-77 (camera.py:11-16): no frame
NoFrame ==
    /\ pc = "detect"
    /\ missed < MaxMissed
    /\ frame' = "None"
    /\ result' = "no_frame"
    /\ missed' = missed + 1
    /\ pc' = "dispatch"
    /\ UNCHANGED <<plc_connected, mc, trigger_detected, boxes, detection_result,
                   detection_count, ok_count, ng_count, m10, d11, ioLog, cycles,
                   stopReason, summary>>
    /\ UNCHANGED <<writes, detVars, ctlVars>>

\* lines 74-130: a frame, the detector's boxes, the classification
Detect ==
    /\ pc = "detect"
    /\ frame' = "frame"
    /\ \E bs \in BoxLists :
         /\ boxes' = bs
         /\ detection_result' = DetectionResult(bs)
    /\ pc' = "write"
    /\ UNCHANGED <<plc_connected, mc, trigger_detected, result, detection_count,
                   ok_count, ng_count, m10, d11, ioLog, cycles, missed,
                   stopReason, summary>>
    /\ UNCHANGED <<writes, detVars, ctlVars>>

\* line 133 and write_result, lines 58-70
WriteResult ==
    /\ pc = "write"
    /\ IF NoPlc
       THEN /\ ioLog' = Append(ioLog, Call("write_result", "none", detection_result))
            /\ d11' = d11
       ELSE \E io \in IoOutcomes :
              /\ ioLog' = Append(ioLog, Call("write_result", io, detection_result))
              /\ d11' = IF io = "ok" THEN detection_result ELSE d11
    /\ pc' = "show"
    /\ UNCHANGED <<plc_connected, mc, trigger_detected, frame, boxes,
                   detection_result, result, detection_count, ok_count, ng_count,
                   m10, cycles, missed, stopReason, summary>>
    /\ writes' = writes + 1
    /\ UNCHANGED <<detVars, ctlVars>>

\* lines 136-150: the test-mode window and the value returned
ShowFrame ==
    /\ pc = "show"
    /\ IF ~plc_connected
       THEN \E key \in Keys :
              result' = IF key = "q" THEN "quit"
                        ELSE IF key = "space" THEN "manual_trigger"
                        ELSE "success"
       ELSE result' = "success"
    /\ pc' = "dispatch"
    /\ UNCHANGED <<plc_connected, mc, trigger_detected, frame, boxes,
                   detection_result, detection_count, ok_count, ng_count, m10, d11,
                   ioLog, cycles, missed, stopReason, summary>>
    /\ UNCHANGED <<writes, detVars, ctlVars>>

DispatchCountsNoFrame ==
    /\ pc = "dispatch"
    /\ IF result = "quit"
       THEN /\ stopReason' = "quit"
            /\ pc' = "finally"
            /\ detection_count' = detection_count
       ELSE /\ detection_count' = detection_count + 1
            /\ pc' = "after"
            /\ stopReason' = stopReason
    /\ UNCHANGED <<plc_connected, mc, trigger_detected, frame, boxes,
                   detection_result, result, ok_count, ng_count, m10, d11, ioLog,
                   cycles, missed, summary>>
    /\ UNCHANGED <<writes, detVars, ctlVars>>

\* lines 183-189
Dispatch ==
    /\ pc = "dispatch"
    /\ IF result = "quit"
       THEN /\ stopReason' = "quit"
            /\ pc' = "finally"
            /\ detection_count' = detection_count
       ELSE IF result = "no_frame"
       THEN /\ pc' = "after"
            /\ UNCHANGED <<stopReason, detection_count>>
       ELSE /\ detection_count' = detection_count + 1
            /\ pc' = "after"
            /\ stopReason' = stopReason
    /\ UNCHANGED <<plc_connected, mc, trigger_detected, frame, boxes,
                   detection_result, result, ok_count, ng_count, m10, d11, ioLog,
                   cycles, missed, summary>>
    /\ UNCHANGED <<writes, detVars, ctlVars>>

\* lines 191-198 and reset_trigger, lines 48-56
ResetOrLimit ==
    /\ pc = "after"
    /\ IF ShouldReset
       THEN /\ IF NoPlc
               THEN UNCHANGED <<ioLog, m10>>
               ELSE \E io \in IoOutcomes :
                      /\ ioLog' = Append(ioLog, Call("reset_trigger", io, 0))
                      /\ m10' = IF io = "ok" THEN 0 ELSE m10
            /\ pc' = "sleep"
            /\ UNCHANGED <<stopReason, summary>>
       ELSE IF LimitReached(detection_count)
       THEN /\ stopReason' = "limit"
            /\ summary' = <<[total |-> detection_count, ok |-> ok_count, ng |-> ng_count]>>
            /\ pc' = "finally"
            /\ UNCHANGED <<ioLog, m10>>
       ELSE /\ pc' = "sleep"
            /\ UNCHANGED <<ioLog, m10, stopReason, summary>>
    /\ UNCHANGED <<plc_connected, mc, trigger_detected, frame, boxes,
                   detection_result, result, detection_count, ok_count, ng_count,
                   d11, cycles, missed>>
    /\ UNCHANGED <<writes, detVars, ctlVars>>

SleepReconnects ==
    /\ pc = "sleep"
    /\ pc' = "loop_top"
    /\ plc_connected' = TRUE
    /\ mc' = "Type3E"
    /\ UNCHANGED <<trigger_detected, frame, boxes,
                   detection_result, result, detection_count, ok_count, ng_count,
                   m10, d11, ioLog, cycles, missed, stopReason, summary>>
    /\ UNCHANGED <<writes, detVars, ctlVars>>

\* lines 200-202
Sleep ==
    /\ pc = "sleep"
    /\ pc' = "loop_top"
    /\ UNCHANGED <<plc_connected, mc, trigger_detected, frame, boxes,
                   detection_result, result, detection_count, ok_count, ng_count,
                   m10, d11, ioLog, cycles, missed, stopReason, summary>>
    /\ UNCHANGED <<writes, detVars, ctlVars>>

\* lines 204-206: Ctrl+C anywhere inside the try
KeyboardInterrupt ==
    /\ pc \in InTry
    /\ stopReason' = "interrupt"
    /\ summary' = <<[total |-> detection_count, ok |-> ok_count, ng |-> ng_count]>>
    /\ pc' = "finally"
    /\ UNCHANGED <<plc_connected, mc, trigger_detected, frame, boxes,
                   detection_result, result, detection_count, ok_count, ng_count,
                   m10, d11, ioLog, cycles, missed>>
    /\ UNCHANGED <<writes, detVars, ctlVars>>

\* lines 207-208: an exception of the camera, the detector or the window
UnexpectedError ==
    /\ pc \in {"detect", "show"}
    /\ stopReason' = "error"
    /\ pc' = "finally"
    /\ UNCHANGED <<plc_connected, mc, trigger_detected, frame, boxes,
                   detection_result, result, detection_count, ok_count, ng_count,
                   m10, d11, ioLog, cycles, missed, summary>>
    /\ UNCHANGED <<writes, detVars, ctlVars>>

\* lines 209-212
Finally ==
    /\ pc = "finally"
    /\ pc' = "done"
    /\ UNCHANGED <<plc_connected, mc, trigger_detected, frame, boxes,
                   detection_result, result, detection_count, ok_count, ng_count,
                   m10, d11, ioLog, cycles, missed, stopReason, summary>>
    /\ UNCHANGED <<writes, detVars, ctlVars>>

\* the controller raises the trigger coil that line 42 reads
PlcSetsTrigger ==
    /\ plc_connected
    /\ pc \in InTry
    /\ m10 = 0
    /\ m10' = 1
    /\ UNCHANGED <<plc_connected, mc, pc, trigger_detected, frame, boxes,
                   detection_result, result, detection_count, ok_count, ng_count,
                   d11, ioLog, cycles, missed, stopReason, summary>>
    /\ UNCHANGED <<writes, detVars, ctlVars>>

----------------------------------------------------------------------------
(* run_detection, detector.py:7-25 *)

ClassIds == (0..MaxClassId) \cup {16}

RECURSIVE BitOr(_, _)
\* Python's | on non-negative integers
BitOr(a, b) ==
    IF a = 0 THEN b
    ELSE IF b = 0 THEN a
    ELSE (IF a % 2 = 1 \/ b % 2 = 1 THEN 1 ELSE 0) + 2 * BitOr(a \div 2, b \div 2)

CapBitNoOffset(cap) == 2 ^ cap

\* line 22: 1 << (cap - 1)
CapBit(cap) == 2 ^ (cap - 1)

EncodeCapAssign(value, cap) == CapBit(cap)

\* line 22: result_value |= (1 << (cap - 1))
EncodeCap(value, cap) == BitOr(value, CapBit(cap))

InitDetector ==
    /\ det_pc = "boxes"
    /\ det_nboxes = 0
    /\ missing = {}
    /\ remaining = {}
    /\ result_value = 0

\* lines 11-13: one box of results.boxes.data
AddBox ==
    /\ det_pc = "boxes"
    /\ det_nboxes < MaxDetBoxes
    /\ \E cls \in ClassIds : missing' = missing \cup {cls + 1}
    /\ det_nboxes' = det_nboxes + 1
    /\ UNCHANGED <<det_pc, remaining, result_value>>
    /\ UNCHANGED <<loopVars, ctlVars>>

\* lines 20-21: the boxes are exhausted, the second loop starts
StartEncode ==
    /\ det_pc = "boxes"
    /\ result_value' = 0
    /\ remaining' = missing
    /\ det_pc' = "encode"
    /\ UNCHANGED <<det_nboxes, missing>>
    /\ UNCHANGED <<loopVars, ctlVars>>

\* lines 21-22: one cap of the set, in whatever order the set yields it
EncodeStep ==
    /\ det_pc = "encode"
    /\ \E cap \in remaining :
         /\ result_value' = EncodeCap(result_value, cap)
         /\ remaining' = remaining \ {cap}
    /\ UNCHANGED <<det_pc, det_nboxes, missing>>
    /\ UNCHANGED <<loopVars, ctlVars>>

\* lines 24-25
ReturnValue ==
    /\ det_pc = "encode"
    /\ remaining = {}
    /\ det_pc' = "returned"
    /\ UNCHANGED <<det_nboxes, missing, remaining, result_value>>
    /\ UNCHANGED <<loopVars, ctlVars>>

----------------------------------------------------------------------------
(* PLCController, plc_sender.py:3-34 *)

\* values a caller hands to write_result
CtlValues == {NG, OK}

\* a call on self.mc: it raises when the connect of line 9 failed
CtlIoOutcomes == IF ctl_link = "up" THEN {"ok", "error"} ELSE {"error"}

\* lines 4-12: the constructor keeps self.mc whether or not connect succeeded
InitController ==
    /\ ctl_link \in {"up", "down"}
    /\ ctl_trigger \in {0, 1}
    /\ ctl_result \in CtlValues
    /\ ctl_io = 0
    /\ ctl_last = "none"

\* the state of the class while the other scripts run
CtlQuiet ==
    /\ ctl_link = "down"
    /\ ctl_trigger = 0
    /\ ctl_result = NG

\* lines 14-20
CtlReadTrigger ==
    /\ ctl_io < MaxCtlCalls
    /\ \E io \in CtlIoOutcomes :
         ctl_last' = [op |-> "read_trigger", io |-> io,
                      ret |-> IF io = "ok" THEN ctl_trigger = 1 ELSE FALSE]
    /\ ctl_io' = ctl_io + 1
    /\ UNCHANGED <<ctl_link, ctl_trigger, ctl_result>>
    /\ UNCHANGED <<loopVars, detVars>>

\* lines 22-27
CtlResetTrigger ==
    /\ ctl_io < MaxCtlCalls
    /\ \E io \in CtlIoOutcomes :
         /\ ctl_last' = [op |-> "reset_trigger", io |-> io, ret |-> "None"]
         /\ ctl_trigger' = IF io = "ok" THEN 0 ELSE ctl_trigger
    /\ ctl_io' = ctl_io + 1
    /\ UNCHANGED <<ctl_link, ctl_result>>
    /\ UNCHANGED <<loopVars, detVars>>

\* lines 29-34
CtlWriteResult ==
    /\ ctl_io < MaxCtlCalls
    /\ \E value \in CtlValues, io \in CtlIoOutcomes :
         /\ ctl_last' = [op |-> "write_result", io |-> io, ret |-> "None"]
         /\ ctl_result' = IF io = "ok" THEN value ELSE ctl_result
    /\ ctl_io' = ctl_io + 1
    /\ UNCHANGED <<ctl_link, ctl_trigger>>
    /\ UNCHANGED <<loopVars, detVars>>

\* the controller raises the trigger word that line 16 reads
CtlPlcSetsTrigger ==
    /\ ctl_link = "up"
    /\ ctl_trigger = 0
    /\ ctl_trigger' = 1
    /\ UNCHANGED <<ctl_link, ctl_result, ctl_io, ctl_last>>
    /\ UNCHANGED <<loopVars, detVars>>

----------------------------------------------------------------------------
(* Specifications *)

Init == InitLoop /\ InitDetector /\ InitController /\ CtlQuiet

Next ==
    \/ ReadTrigger
    \/ NoFrame
    \/ Detect
    \/ WriteResult
    \/ ShowFrame
    \/ Dispatch
    \/ ResetOrLimit
    \/ Sleep
    \/ KeyboardInterrupt
    \/ UnexpectedError
    \/ Finally
    \/ PlcSetsTrigger

Spec == Init /\ [][Next]_vars

InitDet ==
    /\ InitDetector
    /\ InitController
    /\ CtlQuiet
    /\ InitLoop
    /\ plc_connected = FALSE
    /\ m10 = 0
    /\ d11 = 0

NextDetector ==
    \/ AddBox
    \/ StartEncode
    \/ EncodeStep
    \/ ReturnValue

SpecDetector == InitDet /\ [][NextDetector]_vars

InitPlc ==
    /\ InitController
    /\ InitDetector
    /\ InitLoop
    /\ plc_connected = FALSE

NextPlc ==
    \/ CtlReadTrigger
    \/ CtlResetTrigger
    \/ CtlWriteResult
    \/ CtlPlcSetsTrigger

SpecPlc == InitPlc /\ [][NextPlc]_vars

----------------------------------------------------------------------------
(* Claims about the control loop, checked under Spec *)

WriteCall == ioLog[OpIndex("write_result")]
Counters == <<detection_count, ok_count, ng_count>>

\* C1: while Connected, at the end of a loop iteration a trigger reset was
\* attempted if and only if the iteration issued its result write; after a
\* "no_frame" iteration reset_trigger was not called.
C1_ResetIffWritten ==
    (plc_connected /\ pc = "sleep") =>
        /\ HasOp("reset_trigger") <=> HasOp("write_result")
        /\ result = "no_frame" => ~HasOp("reset_trigger")

\* C2: inside one loop iteration the trigger poll comes first, the result
\* write (at most one) comes before the trigger reset (at most one), and while
\* Connected an iteration that wrote a result has attempted its reset before
\* the loop sleeps and polls again; so no write of the next iteration can
\* precede the reset of this one.
C2_WriteBeforeReset ==
    /\ \A i, j \in 1..Len(ioLog) :
         (ioLog[i].op = "write_result" /\ ioLog[j].op = "reset_trigger") => i < j
    /\ \A i \in 1..Len(ioLog) : ioLog[i].op = "read_trigger" => i = 1
    /\ Cardinality({i \in 1..Len(ioLog) : ioLog[i].op = "write_result"}) <= 1
    /\ Cardinality({i \in 1..Len(ioLog) : ioLog[i].op = "reset_trigger"}) <= 1
    /\ (plc_connected /\ pc \in {"sleep", "loop_top"} /\ HasOp("write_result"))
         => HasOp("reset_trigger")

C2_Witness ==
    /\ plc_connected
    /\ pc = "loop_top"
    /\ cycles >= 2
    /\ Len(ioLog) = 3
    /\ ioLog[2].op = "write_result"
    /\ ioLog[3].op = "reset_trigger"

\* C3 (as stated): in fallback mode the loop stops by itself after exactly
\* MaxDetections loop iterations, whatever the frame source returns.
C3_StopsAfterMaxCycles ==
    (~plc_connected /\ stopReason = "limit") => cycles = MaxDetections

\* C3 (amended): in fallback mode the loop stops by itself exactly when the
\* count of completed detections reaches MaxDetections: never with fewer,
\* never going on to another iteration with that many; iterations without a
\* frame are not counted, so the stop comes after MaxDetections + missed
\* iterations.
C3_StopsAtMaxDetections ==
    ~plc_connected =>
        /\ detection_count <= MaxDetections
        /\ stopReason = "limit" =>
             /\ detection_count = MaxDetections
             /\ cycles = MaxDetections + missed
        /\ pc \in {"sleep", "loop_top"} => detection_count < MaxDetections

C3_Witness ==
    /\ ~plc_connected
    /\ stopReason = "limit"
    /\ missed > 0
    /\ cycles > MaxDetections

\* C4: when the loop stops on the fallback limit, total = ok + ng.
C4_TotalIsOkPlusNg ==
    (~plc_connected /\ stopReason = "limit") =>
        detection_count = ok_count + ng_count

\* A label matches a word when the word occurs in the lower-cased label
Matches(word, label) == Contains(word, Lower(label))

C6_EmptyIsNG ==
    (frame = "frame" /\ boxes = <<>>) =>
        /\ detection_result = NG
        /\ HasOp("write_result") =>
             /\ WriteCall.val = NG
             /\ WriteCall.io = "ok" => d11 = NG

C6_Witness ==
    /\ frame = "frame"
    /\ boxes = <<>>
    /\ plc_connected
    /\ HasOp("write_result")
    /\ WriteCall.io = "ok"
    /\ d11 = NG

ReadFailed ==
    /\ plc_connected
    /\ ioLog # <<>>
    /\ ioLog[1].op = "read_trigger"
    /\ ioLog[1].io = "error"

\* C10: while Connected, in a loop iteration whose trigger read failed the
\* trigger counts as not set: no detection, no write and no reset happen, the
\* connection state and the counters do not change, and unless the operator
\* interrupts the loop is still running and on its way to the next poll.
C10_ReadErrorSkipsCycle ==
    [][ReadFailed =>
        /\ ~trigger_detected
        /\ pc \notin {"detect", "write", "show", "dispatch", "after"}
        /\ Len(ioLog) = 1
        /\ frame = "unset"
        /\ stopReason = "none" => pc \in {"sleep", "loop_top"}
        /\ plc_connected' = plc_connected
        /\ mc' = mc
        /\ Counters' = Counters]_vars

C10_Witness ==
    /\ ReadFailed
    /\ m10 = 1
    /\ pc = "loop_top"
    /\ stopReason = "none"

\* C11: in a loop iteration in which no frame is available no result is
\* written, the counters and the result register do not change, the loop is
\* not left (unless the operator interrupts) and it goes back to the poll.
C11_NoFrameSkipsCycle ==
    [][frame = "None" =>
        /\ result = "no_frame"
        /\ ~HasOp("write_result")
        /\ stopReason \in {"none", "interrupt"}
        /\ stopReason = "none" => pc \in {"dispatch", "after", "sleep", "loop_top"}
        /\ Counters' = Counters
        /\ writes' = writes
        /\ d11' = d11]_vars

C11_Witness ==
    /\ frame = "None"
    /\ pc = "loop_top"
    /\ stopReason = "none"
    /\ detection_count > 0

WriteFailed ==
    /\ plc_connected
    /\ HasOp("write_result")
    /\ WriteCall.io = "error"

ResetFailed ==
    /\ HasOp("reset_trigger")
    /\ ioLog[OpIndex("reset_trigger")].io = "error"

\* C12: while Connected, after a failed result write the cycle is still
\* counted, its trigger reset is still attempted before the loop sleeps, and
\* neither that failure nor a failed reset makes the loop stop.
C12_WriteFailureAbsorbed ==
    [][/\ WriteFailed =>
            /\ stopReason # "quit" /\ stopReason # "limit"
            /\ (pc = "dispatch" /\ pc' # "finally") =>
                   detection_count' = detection_count + 1
            /\ pc \in {"sleep", "loop_top"} => HasOp("reset_trigger")
       /\ ResetFailed =>
            /\ stopReason \in {"none", "interrupt"}
            /\ stopReason = "none" => pc \in {"sleep", "loop_top"}]_vars

C12_Witness ==
    /\ WriteFailed
    /\ ResetFailed
    /\ pc = "loop_top"
    /\ stopReason = "none"
    /\ detection_count = 1

\* C13: the connectivity state set by the connect attempt never changes: no
\* step of the loop, whatever the outcome of its controller calls, changes
\* plc_connected or the handle.
C13_ConnectivityFixed ==
    [][plc_connected' = plc_connected /\ mc' = mc]_vars

C13_Witness ==
    /\ plc_connected
    /\ mc = "Type3E"
    /\ pc = "sleep"
    /\ WriteFailed
    /\ ResetFailed
    /\ cycles >= 2

\* C14, the part about app.py (holds under Spec): in test mode no call
\* reaches the controller and read_trigger is not even called.
C14_AppIssuesNoIo ==
    ~plc_connected =>
        /\ \A i \in 1..Len(ioLog) : ioLog[i].io = "none"
        /\ ~HasOp("read_trigger") /\ ~HasOp("reset_trigger")
        /\ m10 = 0 /\ d11 = 0

\* C15: when the loop was left on an unexpected error, the counters summary
\* has been emitted by the time the clean-up is done.
C15_ErrorEmitsSummary ==
    (pc = "done" /\ stopReason = "error") => summary # <<>>

\* C16: when the loop is left on an operator interrupt the summary is
\* emitted, and a cycle that had issued its result write has also had its
\* trigger reset (while Connected) and its counter increment.
C16_InterruptAtBoundary ==
    stopReason = "interrupt" =>
        /\ summary # <<>>
        /\ HasOp("write_result") =>
             /\ plc_connected => HasOp("reset_trigger")
             /\ detection_count = writes

Body == {"detect", "write", "show", "dispatch", "after"}

\* C17: while Connected the body of a cycle runs only after a trigger read of
\* that cycle that succeeded and returned true; after a read that returned
\* false nothing is detected, written or reset and the loop sleeps and polls
\* again. While Disconnected no trigger is read and every cycle runs the body.
C17_DispatchOnlyOnTrigger ==
    /\ (plc_connected /\ pc \in Body) =>
          /\ trigger_detected
          /\ ioLog # <<>>
          /\ ioLog[1] = Call("read_trigger", "ok", 1)
    /\ (plc_connected /\ ioLog # <<>> /\ ioLog[1].val = 0) =>
          /\ ioLog[1].op = "read_trigger"
          /\ Len(ioLog) = 1
          /\ frame = "unset"
          /\ pc \notin Body
          /\ stopReason = "none" => pc \in {"sleep", "loop_top"}
    /\ ~plc_connected =>
          /\ ~HasOp("read_trigger")
          /\ cycles >= 1 => trigger_detected
          /\ pc = "sleep" => frame # "unset"

C17_Witness ==
    /\ plc_connected
    /\ ioLog = <<Call("read_trigger", "ok", 0)>>
    /\ pc = "loop_top"
    /\ cycles >= 2

\* C18: the value detect_once hands to write_result is the same for every
\* permutation of the list of detections.
C18_OrderIndependent ==
    (frame = "frame" /\ pc = "show") =>
        \A p \in Permutations(1..Len(boxes)) :
            WriteCall.val = DetectionResult([i \in 1..Len(boxes) |-> boxes[p[i]]])

C18_Witness ==
    /\ frame = "frame"
    /\ pc = "show"
    /\ boxes = <<Str_ok, <<"c","a","p">> >>
    /\ WriteCall.val = OK

\* C19: at every cycle boundary and when the loop has ended by itself (quit
\* key or test-mode limit) the total counter equals the number of result
\* writes issued.
C19_TotalEqualsWrites ==
    (pc = "loop_top" \/ (pc = "done" /\ stopReason \in {"quit", "limit"})) =>
        detection_count = writes

Consumed ==
    /\ plc_connected
    /\ ioLog # <<>>
    /\ ioLog[1].op = "read_trigger"
    /\ ioLog[1].val = 1
    /\ \A i \in 1..Len(ioLog) : ioLog[i].io = "ok"

\* C20: while Connected and with the controller calls succeeding, a cycle
\* that read the trigger as true has reset it before the loop sleeps and
\* polls again, and the reset leaves the coil at 0.
C20_ConsumedTriggerIsReset ==
    [][Consumed =>
        /\ pc \in {"sleep", "loop_top"} => HasOp("reset_trigger")
        /\ (pc = "after" /\ pc' = "sleep" /\ ioLog'[Len(ioLog')].io = "ok")
              => m10' = 0]_vars

C20_Witness ==
    /\ Consumed
    /\ frame = "None"
    /\ HasOp("reset_trigger")
    /\ pc = "sleep"
    /\ m10 = 0

----------------------------------------------------------------------------
(* Claims about run_detection, checked under SpecDetector *)

RECURSIVE SumBits(_)
SumBits(S) ==
    IF S = {} THEN 0
    ELSE LET p == CHOOSE q \in S : TRUE IN 2 ^ (p - 1) + SumBits(S \ {p})

BitSet(v, i) == (v \div (2 ^ i)) % 2 = 1

OddOrder == <<1, 3, 5>>
EvenOrder == <<2, 4, 6>>

\* the word the claim assigns to a register whose bits follow `order`
RegisterOf(order, S) == SumBits({i \in 1..Len(order) : order[i] \in S})

\* the positions a register word stands for under `order`
DecodeOf(order, v) == {order[i] : i \in {k \in 1..Len(order) : BitSet(v, k - 1)}}

\* C7 (as stated): the encoded word is register A of the two-register layout:
\* odd positions at their index in (1,3,5), even positions not in it.
C7_TwoRegisterLayout ==
    (det_pc = "returned" /\ missing \subseteq 1..6) =>
        result_value = RegisterOf(OddOrder, missing)

\* C7 (amended): run_detection returns one word in which every detected
\* position p = class_id + 1 sets exactly bit p - 1; the word depends only on
\* the set of detected positions, not on their order or multiplicity.
C7_OneBitPerPosition ==
    det_pc = "returned" => result_value = SumBits(missing)

C7_Witness ==
    /\ det_pc = "returned"
    /\ missing = {1, 4}
    /\ det_nboxes > 2
    /\ result_value = 9

\* C8 (as stated): decoding the encoded word through (1,3,5) gives back the
\* odd detected positions (the even ones being decoded from a register B).
C8_RoundTripTwoRegisters ==
    (det_pc = "returned" /\ missing \subseteq 1..6) =>
        DecodeOf(OddOrder, result_value) = {p \in missing : p % 2 = 1}

\* C8 (amended): reading bit i of the returned word as position i + 1 gives
\* back exactly the set of detected positions.
C8_RoundTripOneWord ==
    det_pc = "returned" =>
        {p \in 1..(MaxClassId + 18) : BitSet(result_value, p - 1)} = missing

C8_Witness ==
    /\ det_pc = "returned"
    /\ missing = 1..6
    /\ result_value = 63

\* C9: the encoded word has no bit outside those of positions 1..6 and fits a
\* 16-bit register word.
C9_OnlySixBits ==
    det_pc = "returned" =>
        /\ result_value < 2 ^ 6
        /\ result_value < 2 ^ 16

----------------------------------------------------------------------------
(* Claims about PLCController, checked under SpecPlc *)

\* C14: when the connection attempt failed, no method of the wrapper issues a
\* call on the connection handle.
C14_NoIoWhenDisconnected ==
    ctl_link = "down" => ctl_io = 0

====
